---- MODULE Spec2Model ----
(***************************************************************************)
(* Model of the sqlrooms-testing application: the room store with its      *)
(* workspace switch (src/src/store.tsx, final store, lines 305-490), the   *)
(* workspace switcher buttons (src/src/WorkspaceSwitcher.tsx), the SQL     *)
(* editor disclosure of the root component (src/src/App.tsx) and the file  *)
(* drop handler of the data panel (src/src/DataViewV2.tsx).                *)
(*                                                                         *)
(* JavaScript runs one callback at a time: a synchronous function runs to  *)
(* completion, an async function gives up control only at an await.  Each  *)
(* action below is one such uninterrupted run, except setCurrentWorkspace, *)
(* whose two store updates are kept as two steps so that the state between *)
(* them (which store subscribers are notified of) is a state of the model. *)
(***************************************************************************)
EXTENDS Integers, Sequences, FiniteSets, TLC

(***************************************************************************)
(* Bounds of the model.                                                    *)
(***************************************************************************)
\* number of drops (onDrop invocations) in one behaviour
MaxDrops == 2
\* number of files dropped in one behaviour, all drops together
MaxFiles == 2
\* length of the text handed to the echo tool
MaxTextLen == 2

(***************************************************************************)
(* Layout trees.  A mosaic node is either a panel identifier or a split;   *)
(* both are records here so that any two nodes can be compared.            *)
(***************************************************************************)
Leaf(id) == [kind |-> "leaf", id |-> id]

Branch(d, f, s, p) ==
    [kind |-> "branch", direction |-> d, first |-> f, second |-> s,
     splitPercentage |-> p]

Mosaic(n) == [type |-> "mosaic", nodes |-> n]

\* the data workspace with a split beyond the whole
dataWorkspace_oversplit ==
    Mosaic(Branch("row", Leaf("file-upload"), Leaf("data-connectors"), 140))

dataWorkspace ==
    Mosaic(Branch("row", Leaf("file-upload"), Leaf("data-connectors"), 40))

queryWorkspace ==
    Mosaic(Branch("row", Leaf("data-view"), Leaf("ai-view"), 30))

chartWorkspace == Mosaic(Leaf("chart-view"))

WORKSPACES ==
    [w \in {"data", "query", "chart"} |->
        CASE w = "data" -> dataWorkspace
          [] w = "query" -> queryWorkspace
          [] w = "chart" -> chartWorkspace]

WorkspaceId == DOMAIN WORKSPACES

\* config.layout of the room shell slice
InitialLayout == WORKSPACES["query"]

\* config.layout of the first store of store.tsx, before the workspaces
sidebarLayout ==
    Mosaic(Branch("row", Leaf("data-view"), Leaf("main-view"), 30))

\* config.layout of the store with the nested split
nestedLayout ==
    Mosaic(Branch("row",
                  Branch("column", Leaf("upload-file"), Leaf("table-structure"), 30),
                  Leaf("main-view"), 30))

\* the layouts store.tsx gives a store to start with
DefaultLayouts == {sidebarLayout, nestedLayout, InitialLayout}

\* a store whose workspace field starts on another workspace than its layout
InitialWorkspace_data == "data"

\* the initial value of the currentWorkspace field
InitialWorkspace == "query"

\* room.panels of the room shell slice
InitialPanels ==
    [p \in {"data-view", "ai-view"} |->
        CASE p = "data-view" ->
               [title |-> "Data View", icon |-> "DatabaseIcon",
                component |-> "DataViewAccordion", placement |-> "main"]
          [] p = "ai-view" ->
               [title |-> "Main View", icon |-> "none",
                component |-> "AiView", placement |-> "main"]]

\* a switcher whose third button carries the id of the guide
ButtonIds_charts == {"data", "query", "charts"}

\* the ids of the buttons the workspace switcher renders
ButtonIds == {"data", "query", "chart"}

RECURSIVE LeavesOf(_)
\* the panel identifiers at the leaves of a mosaic node
LeavesOf(n) ==
    IF n.kind = "leaf" THEN {n.id}
    ELSE LeavesOf(n.first) \cup LeavesOf(n.second)

RECURSIVE BranchesOf(_)
\* the split nodes of a mosaic node, at every depth
BranchesOf(n) ==
    IF n.kind = "leaf" THEN {}
    ELSE {n} \cup BranchesOf(n.first) \cup BranchesOf(n.second)

VARIABLES
    currentWorkspace,   \* store field currentWorkspace
    layout,             \* the active layout (config.layout of the store)
    workspaces,         \* the content of the module-level WORKSPACES object
    panels,             \* the panel registry (room.panels)
    switchPc,           \* "idle", or "set" inside setCurrentWorkspace
    switchArg,          \* the argument of the running setCurrentWorkspace
    sqlEditorOpen,      \* sqlEditorDisclosure.isOpen
    handlers,           \* the onDrop invocations, by number
    nDrops,             \* how many drops have happened
    inflight,           \* framework promises that have not settled yet
    lastRefresh,        \* history: the handler whose refresh started last, and
                        \* whether a load has started or settled since
    db,                 \* the database: its tables and the schemas the UI shows
    config,             \* the rest of the room config: title, editor, AI
    bootPc,             \* how many imports of the entry point have run, or "rendered"
    monacoEnvironment,  \* self.MonacoEnvironment: "undefined" or its workers
    connectorReady,     \* the database connector has finished initializing
    editor,             \* the Monaco editor of the modal
    request,            \* a call of a function of the application, or NoValue
    response            \* what that call returned, or NoValue

vars ==
    <<currentWorkspace, layout, workspaces, panels, switchPc, switchArg,
      sqlEditorOpen, handlers, nDrops, inflight, lastRefresh, db, config,
      bootPc, monacoEnvironment, connectorReady, editor, request, response>>

\* what no handler of the running application writes
envVars == <<config, bootPc, monacoEnvironment, connectorReady, request, response>>

storeVars == <<currentWorkspace, layout, workspaces, panels, switchPc, switchArg>>

dropVars == <<handlers, nDrops, inflight, lastRefresh>>

(***************************************************************************)
(* The store: workspace switch (store.tsx 471-483).                        *)
(***************************************************************************)
(***************************************************************************)
(* Start of the application: the entry point and the Monaco workers.       *)
(***************************************************************************)
\* an entry point that forgets the worker setup
EntryImports_noSetup ==
    <<"react", "react-dom/client", "./index.css", "./App">>

\* the imports of the entry point src/main.tsx, in the order they run
EntryImports ==
    <<"./monacoWorkerSetup", "react", "react-dom/client", "./index.css", "./App">>

\* the value of bootPc once the entry point has rendered the root component:
\* every import has run, then the body
Rendered == Len(EntryImports) + 1

\* the root component has been rendered, so its handlers can be called
AppMounted == bootPc = Rendered

\* a worker map without the fallback entry
MonacoWorkers_noDefault ==
    [json |-> "jsonWorker", css |-> "cssWorker", html |-> "htmlWorker",
     typescript |-> "tsWorker", javascript |-> "tsWorker"]

\* the workers option monacoWorkerSetup passes to configureMonacoLoader
MonacoWorkers ==
    [default |-> "editorWorker", json |-> "jsonWorker", css |-> "cssWorker",
     html |-> "htmlWorker", typescript |-> "tsWorker", javascript |-> "tsWorker"]

\* self.MonacoEnvironment before and after configureMonacoLoader
EnvironmentUndefined == [defined |-> FALSE]

EnvironmentConfigured == [defined |-> TRUE, workers |-> MonacoWorkers]

\* getWorker(_, label) of the environment configureMonacoLoader installs:
\* workers[label] || workers.default || undefined, then new WorkerCtor()
getWorker(workers, label) ==
    LET WorkerCtor ==
            IF label \in DOMAIN workers THEN workers[label]
            ELSE IF "default" \in DOMAIN workers THEN workers["default"]
            ELSE "undefined"
    IN  IF WorkerCtor # "undefined" THEN WorkerCtor ELSE "undefined"

\* the worker labels Monaco asks for
WorkerLabels ==
    {"editorWorkerService", "json", "css", "scss", "less", "html",
     "handlebars", "razor", "typescript", "javascript"}

\* self.MonacoEnvironment after the imports of the entry point have run
EnvironmentAfter(imports) ==
    IF \E k \in 1..Len(imports) : imports[k] = "./monacoWorkerSetup"
    THEN EnvironmentConfigured ELSE EnvironmentUndefined

\* neither a request nor a response
NoValue == [kind |-> "none"]

\* an event loop that starts a callback while another one is running
CallStackEmpty_reentrant == TRUE

\* no synchronous callback of the application is on the call stack
CallStackEmpty == switchPc = "idle"

\* what a lookup with a missing key gives, as a layout
Undefined == [type |-> "undefined"]

\* a setLayout that merges: the first child of the old split survives
setLayout_merge(cur, newLayout) ==
    IF cur.nodes.kind = "branch" /\ newLayout.nodes.kind = "branch"
    THEN [newLayout EXCEPT !.nodes.first = cur.nodes.first]
    ELSE newLayout

\* layout.setLayout of the room shell slice: the new layout replaces the old
setLayout(cur, newLayout) == newLayout

\* set({ currentWorkspace: workspace }), the first store update of the switch
SetCurrentWorkspaceBegin(w) ==
    /\ CallStackEmpty
    /\ AppMounted
    /\ currentWorkspace' = w
    /\ switchPc' = "set"
    /\ switchArg' = w
    /\ UNCHANGED <<layout, workspaces, panels, sqlEditorOpen>>
    /\ UNCHANGED dropVars
    /\ UNCHANGED <<db, editor>>
    /\ UNCHANGED envVars

\* a switch that registers the panels of the new layout as it installs it
SetCurrentWorkspaceEnd_registers ==
    /\ switchPc = "set"
    /\ switchArg \in DOMAIN workspaces
    /\ LET newLayout == workspaces[switchArg]
           ids == DOMAIN panels \cup LeavesOf(newLayout.nodes)
       IN  /\ layout' = setLayout(layout, newLayout)
           /\ panels' = [p \in ids |->
                 IF p \in DOMAIN panels THEN panels[p]
                 ELSE [title |-> p, icon |-> "none", component |-> "none",
                       placement |-> "main"]]
    /\ switchPc' = "idle"
    /\ switchArg' = "none"
    /\ UNCHANGED <<currentWorkspace, workspaces, sqlEditorOpen>>
    /\ UNCHANGED dropVars
    /\ UNCHANGED <<db, editor>>
    /\ UNCHANGED envVars

\* a switch that copies the new tree into the object that is the active
\* layout, which is one of the stored trees
SetCurrentWorkspaceEnd_inPlace ==
    /\ switchPc = "set"
    /\ switchArg \in DOMAIN workspaces
    /\ LET newLayout == workspaces[switchArg]
       IN  /\ layout' = setLayout(layout, newLayout)
           /\ workspaces' = [w \in DOMAIN workspaces |->
                 IF workspaces[w] = layout THEN newLayout ELSE workspaces[w]]
    /\ switchPc' = "idle"
    /\ switchArg' = "none"
    /\ UNCHANGED <<currentWorkspace, panels, sqlEditorOpen>>
    /\ UNCHANGED dropVars
    /\ UNCHANGED <<db, editor>>
    /\ UNCHANGED envVars

\* a switch that abandons the drops in progress when the panel with the
\* dropzone leaves the screen
SetCurrentWorkspaceEnd_cancels ==
    /\ switchPc = "set"
    /\ switchArg \in DOMAIN workspaces
    /\ LET newLayout == workspaces[switchArg]
       IN  /\ layout' = setLayout(layout, newLayout)
           /\ IF "data-view" \in LeavesOf(newLayout.nodes)
              THEN UNCHANGED <<handlers, inflight>>
              ELSE /\ inflight' = {}
                   /\ handlers' = [h \in DOMAIN handlers |->
                         IF handlers[h].pc \in {"awaitLoad", "awaitRefresh"}
                         THEN [handlers[h] EXCEPT !.pc = "rejected"]
                         ELSE handlers[h]]
    /\ switchPc' = "idle"
    /\ switchArg' = "none"
    /\ UNCHANGED <<currentWorkspace, workspaces, panels, sqlEditorOpen, nDrops,
                   lastRefresh>>
    /\ UNCHANGED <<db, editor>>
    /\ UNCHANGED envVars

\* a switch that also forgets the schemas the data panel was showing
SetCurrentWorkspaceEnd_resets ==
    /\ switchPc = "set"
    /\ switchArg \in DOMAIN workspaces
    /\ LET newLayout == workspaces[switchArg]
       IN  layout' = setLayout(layout, newLayout)
    /\ db' = [db EXCEPT !.schemas = {}]
    /\ switchPc' = "idle"
    /\ switchArg' = "none"
    /\ UNCHANGED <<currentWorkspace, workspaces, panels, sqlEditorOpen>>
    /\ UNCHANGED dropVars
    /\ UNCHANGED editor
    /\ UNCHANGED envVars

\* const newLayout = WORKSPACES[workspace]; get().layout.setLayout(newLayout);
\* the second store update, after which setCurrentWorkspace returns
SetCurrentWorkspaceEnd ==
    /\ switchPc = "set"
    /\ IF switchArg \in DOMAIN workspaces
       THEN LET newLayout == workspaces[switchArg]
            IN  layout' = setLayout(layout, newLayout)
       ELSE \* the lookup gives undefined: the framework's setLayout either
            \* stores it or throws
            layout' \in {setLayout(layout, Undefined), layout}
    /\ switchPc' = "idle"
    /\ switchArg' = "none"
    /\ UNCHANGED <<currentWorkspace, workspaces, panels, sqlEditorOpen>>
    /\ UNCHANGED dropVars
    /\ UNCHANGED <<db, editor>>
    /\ UNCHANGED envVars

\* the buttons of the WorkspaceSwitcher
SwitcherButtons ==
    {[id |-> "data", label |-> "Data"],
     [id |-> "query", label |-> "Query"],
     [id |-> "chart", label |-> "Charts"]}

\* a switcher that compares the button's label with the workspace
Highlighted_byLabel(ws) == currentWorkspace = ws.label

\* the button is drawn with the primary colours
Highlighted(ws) == currentWorkspace = ws.id

\* the part of the store a switch reads and writes
StoreState ==
    [currentWorkspace |-> currentWorkspace, layout |-> layout,
     workspaces |-> workspaces]

\* a switch that takes a call with the current workspace as a way back to
\* the initial one
setCurrentWorkspace_toggle(st, workspace) ==
    LET target == IF st.currentWorkspace = workspace
                  THEN InitialWorkspace ELSE workspace
        afterSet == [st EXCEPT !.currentWorkspace = target]
        newLayout == st.workspaces[target]
    IN  [afterSet EXCEPT !.layout = setLayout(afterSet.layout, newLayout)]

\* setCurrentWorkspace(workspace) from call to return, on the store state
setCurrentWorkspace(st, workspace) ==
    LET afterSet == [st EXCEPT !.currentWorkspace = workspace]
        newLayout == st.workspaces[workspace]
    IN  [afterSet EXCEPT !.layout = setLayout(afterSet.layout, newLayout)]

(***************************************************************************)
(* The root component: the disclosure of the SQL editor modal (App.tsx).   *)
(***************************************************************************)
\* sqlEditorDisclosure.onToggle, the click handler of the sidebar button
OnToggle ==
    /\ CallStackEmpty
    /\ AppMounted
    /\ sqlEditorOpen' = ~sqlEditorOpen
    /\ editor' = IF sqlEditorOpen THEN "unmounted" ELSE "loading"
    /\ UNCHANGED storeVars
    /\ UNCHANGED dropVars
    /\ UNCHANGED db
    /\ UNCHANGED envVars

\* sqlEditorDisclosure.onClose, the onClose callback of the modal
OnClose ==
    /\ CallStackEmpty
    /\ AppMounted
    /\ sqlEditorOpen
    /\ sqlEditorOpen' = FALSE
    /\ editor' = "unmounted"
    /\ UNCHANGED storeVars
    /\ UNCHANGED dropVars
    /\ UNCHANGED db
    /\ UNCHANGED envVars

(***************************************************************************)
(* File names and table names.  A string is a sequence of characters.      *)
(***************************************************************************)
Digits == {"0", "1", "2", "3", "4", "5", "6", "7", "8", "9"}

LowerCase ==
    {"a", "b", "c", "d", "e", "f", "g", "h", "i", "j", "k", "l", "m",
     "n", "o", "p", "q", "r", "s", "t", "u", "v", "w", "x", "y", "z"}

UpperCase ==
    {"A", "B", "C", "D", "E", "F", "G", "H", "I", "J", "K", "L", "M",
     "N", "O", "P", "Q", "R", "S", "T", "U", "V", "W", "X", "Y", "Z"}

\* the characters a table name keeps: [a-zA-Z0-9_]
NameChars == LowerCase \cup UpperCase \cup Digits \cup {"_"}

\* the position of the extension's dot, 0 when the name has no extension:
\* the last dot, provided something other than "/" follows it to the end
ExtensionDot(name) ==
    LET dots == {i \in 1..Len(name) : name[i] = "."}
    IN  IF dots = {} THEN 0
        ELSE LET d == CHOOSE i \in dots : \A j \in dots : j <= i
             IN  IF d < Len(name) /\ \A j \in (d + 1)..Len(name) : name[j] # "/"
                 THEN d ELSE 0

\* the extension of a file name with its dot, <<>> when it has none
ExtensionOf(name) ==
    IF ExtensionDot(name) = 0 THEN <<>>
    ELSE SubSeq(name, ExtensionDot(name), Len(name))

\* convertToValidColumnOrTableName of @sqlrooms/utils, as the handler uses
\* it on file.name: drop the extension, replace every character a table name
\* cannot hold by "_", prefix "_" to a leading digit.  It is total on strings.
convertToValidColumnOrTableName(name) ==
    LET base == IF ExtensionDot(name) = 0 THEN name
                ELSE SubSeq(name, 1, ExtensionDot(name) - 1)
        clean == [i \in 1..Len(base) |->
                    IF base[i] \in NameChars THEN base[i] ELSE "_"]
        fixed == IF Len(clean) > 0 /\ clean[1] \in Digits
                 THEN <<"_">> \o clean ELSE clean
    IN  fixed

\* acceptedFormats of the FileDropzone: the extensions it lets through
acceptedFormats ==
    {<<".", "c", "s", "v">>, <<".", "t", "s", "v">>,
     <<".", "p", "a", "r", "q", "u", "e", "t">>, <<".", "j", "s", "o", "n">>}

\* the files a user drops in this model
FileNames ==
    {<<"t", ".", "c", "s", "v">>, <<"1", "-", "b", ".", "t", "s", "v">>}

\* the values a rejected load is rejected with
Errors ==
    {[name |-> "Error", message |-> "Invalid Input Error"],
     [name |-> "TypeError", message |-> "not initialized"]}

\* `${error}` of an Error object: its name, a colon and its message
Stringify(e) == <<e.name, ": ", e.message>>

\* the outcomes of a framework promise
Outcomes == {[ok |-> TRUE]} \cup {[ok |-> FALSE, error |-> e] : e \in Errors}

RECURSIVE SeqsUpTo(_, _)
\* the sequences over S of length at most n
SeqsUpTo(S, n) ==
    IF n = 0 THEN {<<>>}
    ELSE LET shorter == SeqsUpTo(S, n - 1)
         IN  shorter \cup {Append(q, x) : q \in shorter, x \in S}

(***************************************************************************)
(* The drop handler of the data panel (DataViewV2.tsx 43-68).  An          *)
(* invocation records what it calls and what it is told in its log.        *)
(***************************************************************************)
LoadFileCall(i, file, tableName) ==
    [ev |-> "loadFile", i |-> i, file |-> file, tableName |-> tableName]

LoadFileSettled(i, outcome) ==
    [ev |-> "loadFile.settled", i |-> i, outcome |-> outcome]

RefreshCall == [ev |-> "refreshTableSchemas"]

RefreshSettled(outcome) ==
    [ev |-> "refreshTableSchemas.settled", outcome |-> outcome]

\* a success toast that repeats the file name where the table name belongs
SuccessToast_fileName(i, file, tableName) ==
    [ev |-> "toast", i |-> i, variant |-> "default", title |-> "Table created",
     description |-> <<"File ">> \o file \o <<" loaded as ">> \o file]

\* the toast of the try block, after the awaited load
SuccessToast(i, file, tableName) ==
    [ev |-> "toast", i |-> i, variant |-> "default", title |-> "Table created",
     description |-> <<"File ">> \o file \o <<" loaded as ">> \o tableName]

\* a catch block that reports the file but drops the error
ErrorToast_generic(i, file, error) ==
    [ev |-> "toast", i |-> i, variant |-> "destructive", title |-> "Error",
     description |-> <<"Error loading file ">> \o file]

\* the toast of the catch block
ErrorToast(i, file, error) ==
    [ev |-> "toast", i |-> i, variant |-> "destructive", title |-> "Error",
     description |->
        <<"Error loading file ">> \o file \o <<": ">> \o Stringify(error)]

\* a handler that starts the loads of all remaining files without awaiting
OnDropRun_parallel(files, i) ==
    IF i <= Len(files)
    THEN [events |-> [k \in 1..(Len(files) - i + 1) |->
                        LoadFileCall(i + k - 1, files[i + k - 1],
                            convertToValidColumnOrTableName(files[i + k - 1]))],
          calls |-> {[op |-> "loadFile", i |-> k] : k \in i..Len(files)},
          pc |-> "awaitLoad", i |-> i]
    ELSE [events |-> <<RefreshCall>>,
          calls |-> {[op |-> "refreshTableSchemas", i |-> 0]},
          pc |-> "awaitRefresh", i |-> i]

\* a handler that does not await the load of its last file: it starts the
\* load and goes on to the schema refresh
OnDropRun_lastNotAwaited(files, i) ==
    IF i < Len(files)
    THEN [events |-> <<LoadFileCall(i, files[i],
                          convertToValidColumnOrTableName(files[i]))>>,
          calls |-> {[op |-> "loadFile", i |-> i]},
          pc |-> "awaitLoad", i |-> i]
    ELSE IF i = Len(files)
    THEN [events |-> <<LoadFileCall(i, files[i],
                          convertToValidColumnOrTableName(files[i])),
                       RefreshCall>>,
          calls |-> {[op |-> "loadFile", i |-> i],
                     [op |-> "refreshTableSchemas", i |-> 0]},
          pc |-> "awaitRefresh", i |-> i + 1]
    ELSE [events |-> <<RefreshCall>>,
          calls |-> {[op |-> "refreshTableSchemas", i |-> 0]},
          pc |-> "awaitRefresh", i |-> i]

\* the handler's run from the head of the loop at file i to its next await:
\* the load of file i when there is one, the schema refresh after the loop
OnDropRun(files, i) ==
    IF i <= Len(files)
    THEN [events |-> <<LoadFileCall(i, files[i],
                          convertToValidColumnOrTableName(files[i]))>>,
          calls |-> {[op |-> "loadFile", i |-> i]},
          pc |-> "awaitLoad", i |-> i]
    ELSE [events |-> <<RefreshCall>>,
          calls |-> {[op |-> "refreshTableSchemas", i |-> 0]},
          pc |-> "awaitRefresh", i |-> i]

\* a handler whose catch block leaves the loop after the first failed load
OnDropResume_abort(files, i, outcome) ==
    LET toast == IF outcome.ok
                 THEN SuccessToast(i, files[i],
                          convertToValidColumnOrTableName(files[i]))
                 ELSE ErrorToast(i, files[i], outcome.error)
        rest == OnDropRun(files, IF outcome.ok THEN i + 1 ELSE Len(files) + 1)
    IN  [rest EXCEPT !.events = <<toast>> \o rest.events]

\* the handler's run after the load of file i has settled: the toast of the
\* try block or of the catch block, then on with the loop
OnDropResume(files, i, outcome) ==
    LET toast == IF outcome.ok
                 THEN SuccessToast(i, files[i],
                          convertToValidColumnOrTableName(files[i]))
                 ELSE ErrorToast(i, files[i], outcome.error)
        rest == OnDropRun(files, i + 1)
    IN  [rest EXCEPT !.events = <<toast>> \o rest.events]

RECURSIVE FilesDropped(_)
\* the number of files of the first n drops
FilesDropped(n) ==
    IF n = 0 THEN 0 ELSE Len(handlers[n].files) + FilesDropped(n - 1)

\* an invocation that has not happened yet
NoHandler == [pc |-> "unused", files |-> <<>>, i |-> 0, log |-> <<>>]

\* the panel with the dropzone is on screen
DropzoneMounted ==
    /\ AppMounted
    /\ layout.type = "mosaic"
    /\ "data-view" \in LeavesOf(layout.nodes)
    /\ "data-view" \in DOMAIN panels
    /\ panels["data-view"].component = "DataViewAccordion"

\* the history of the calls after handler h has made the calls of a run:
\* a refresh it starts is the one started last, after the loads before it
LastRefreshAfter(last, h, loadSettled, calls) ==
    IF \E c \in calls : c.op = "refreshTableSchemas"
    THEN [h |-> h, loadSince |-> \E c \in calls : c.op = "loadFile"]
    ELSE [last EXCEPT !.loadSince = @ \/ loadSettled \/ calls # {}]

\* the user drops files on the dropzone: onDrop starts and runs to its
\* first await
OnDrop(files) ==
    /\ CallStackEmpty
    /\ DropzoneMounted
    /\ nDrops < MaxDrops
    /\ FilesDropped(nDrops) + Len(files) <= MaxFiles
    /\ \A k \in 1..Len(files) : ExtensionOf(files[k]) \in acceptedFormats
    /\ LET h == nDrops + 1
           r == OnDropRun(files, 1)
       IN  /\ handlers' = [handlers EXCEPT ![h] =
                 [pc |-> r.pc, files |-> files, i |-> r.i, log |-> r.events]]
           /\ inflight' = inflight \cup
                 {[h |-> h, op |-> c.op, i |-> c.i] : c \in r.calls}
           /\ lastRefresh' = LastRefreshAfter(lastRefresh, h, FALSE, r.calls)
           /\ nDrops' = h
    /\ UNCHANGED storeVars
    /\ UNCHANGED <<sqlEditorOpen, editor, db>>
    /\ UNCHANGED envVars

\* the promise of a connector.loadFile call settles and the handler that
\* awaits it goes on to its next await
LoadFileSettles(c, outcome) ==
    /\ CallStackEmpty
    /\ c \in inflight
    /\ c.op = "loadFile"
    /\ LET hd == handlers[c.h]
           \* the handler awaits every load it starts
           awaited == hd.pc = "awaitLoad" /\ hd.i = c.i
           r == IF awaited THEN OnDropResume(hd.files, c.i, outcome)
                ELSE [events |-> <<>>, calls |-> {}, pc |-> hd.pc, i |-> hd.i]
       IN  /\ handlers' = [handlers EXCEPT ![c.h] =
                 [hd EXCEPT !.pc = r.pc, !.i = r.i,
                            !.log = hd.log \o <<LoadFileSettled(c.i, outcome)>>
                                           \o r.events]]
           /\ inflight' = (inflight \ {c}) \cup
                 {[h |-> c.h, op |-> d.op, i |-> d.i] : d \in r.calls}
           /\ lastRefresh' = LastRefreshAfter(lastRefresh, c.h, TRUE, r.calls)
           \* a load that succeeded has created (or replaced) its table
           /\ db' = IF outcome.ok
                    THEN [db EXCEPT !.tables = @ \cup
                            {convertToValidColumnOrTableName(hd.files[c.i])}]
                    ELSE db
    /\ UNCHANGED nDrops
    /\ UNCHANGED storeVars
    /\ UNCHANGED <<sqlEditorOpen, editor>>
    /\ UNCHANGED envVars

\* a handler that catches the rejection of the refresh, reports it with a
\* toast and returns
RefreshSettles_caught(c, outcome) ==
    /\ CallStackEmpty
    /\ c \in inflight
    /\ c.op = "refreshTableSchemas"
    /\ LET hd == handlers[c.h]
       IN  handlers' = [handlers EXCEPT ![c.h] =
              [hd EXCEPT !.pc = IF hd.pc = "awaitRefresh"
                                THEN "resolved" ELSE hd.pc,
                         !.log = hd.log \o <<RefreshSettled(outcome)>> \o
                            (IF outcome.ok THEN <<>>
                             ELSE <<[ev |-> "toast", i |-> 0,
                                     variant |-> "destructive",
                                     title |-> "Error",
                                     description |->
                                         Stringify(outcome.error)]>>)]]
    /\ inflight' = inflight \ {c}
    /\ db' = IF outcome.ok THEN [db EXCEPT !.schemas = db.tables] ELSE db
    /\ UNCHANGED <<nDrops, lastRefresh>>
    /\ UNCHANGED storeVars
    /\ UNCHANGED <<sqlEditorOpen, editor>>
    /\ UNCHANGED envVars

\* the promise of refreshTableSchemas settles and the handler returns; a
\* rejection is not caught and rejects the handler's promise
RefreshSettles(c, outcome) ==
    /\ CallStackEmpty
    /\ c \in inflight
    /\ c.op = "refreshTableSchemas"
    /\ LET hd == handlers[c.h]
       IN  handlers' = [handlers EXCEPT ![c.h] =
              [hd EXCEPT !.pc = IF hd.pc = "awaitRefresh"
                                THEN (IF outcome.ok THEN "resolved" ELSE "rejected")
                                ELSE hd.pc,
                         !.log = hd.log \o <<RefreshSettled(outcome)>>]]
    /\ inflight' = inflight \ {c}
    \* a refresh that succeeded shows the tables the database has
    /\ db' = IF outcome.ok THEN [db EXCEPT !.schemas = db.tables] ELSE db
    /\ UNCHANGED <<nDrops, lastRefresh>>
    /\ UNCHANGED storeVars
    /\ UNCHANGED <<sqlEditorOpen, editor>>
    /\ UNCHANGED envVars

(***************************************************************************)
(* The entry point, the connector and the editor of the modal.             *)
(***************************************************************************)
\* the next import of the entry point runs; the import of monacoWorkerSetup
\* calls configureMonacoLoader, which installs self.MonacoEnvironment
ImportModule ==
    /\ bootPc < Len(EntryImports)
    /\ bootPc' = bootPc + 1
    /\ monacoEnvironment' =
          IF EntryImports[bootPc + 1] = "./monacoWorkerSetup"
          THEN EnvironmentConfigured ELSE monacoEnvironment
    /\ UNCHANGED storeVars
    /\ UNCHANGED dropVars
    /\ UNCHANGED <<sqlEditorOpen, editor, db, config, connectorReady,
                   request, response>>

\* the body of the entry point renders the root component
Render ==
    /\ bootPc = Len(EntryImports)
    /\ bootPc' = Rendered
    /\ UNCHANGED storeVars
    /\ UNCHANGED dropVars
    /\ UNCHANGED <<sqlEditorOpen, editor, db, config, monacoEnvironment,
                   connectorReady, request, response>>

\* the connector the room shell initializes after mounting becomes ready
ConnectorInitialized ==
    /\ CallStackEmpty
    /\ AppMounted
    /\ ~connectorReady
    /\ connectorReady' = TRUE
    /\ UNCHANGED storeVars
    /\ UNCHANGED dropVars
    /\ UNCHANGED <<sqlEditorOpen, editor, db, config, bootPc,
                   monacoEnvironment, request, response>>

\* the Monaco editor of the open modal gets its worker, fires onMount and
\* hides its spinner; without a worker it stays as it is
EditorInitializes ==
    /\ CallStackEmpty
    /\ editor = "loading"
    /\ monacoEnvironment.defined
    /\ \E label \in WorkerLabels :
          getWorker(monacoEnvironment.workers, label) # "undefined"
    /\ editor' = "ready"
    /\ UNCHANGED storeVars
    /\ UNCHANGED dropVars
    /\ UNCHANGED <<sqlEditorOpen, db>>
    /\ UNCHANGED envVars

(***************************************************************************)
(* The application.                                                        *)
(***************************************************************************)
\* the config of the room shell slice next to its layout
InitialConfig ==
    [title |-> "My Data App",
     sqlEditor |-> "createDefaultSqlEditorConfig",
     duckDb |-> "createDefaultDuckDbConfig",
     ai |-> "createDefaultAiConfig",
     aiSettings |-> "AI_SETTINGS"]

\* the store as createRoomStore returns it, and nothing dropped yet
StoreCreated ==
    /\ currentWorkspace = InitialWorkspace
    /\ layout = InitialLayout
    /\ workspaces = WORKSPACES
    /\ panels = InitialPanels
    /\ switchPc = "idle"
    /\ switchArg = "none"
    /\ sqlEditorOpen = FALSE
    /\ handlers = [h \in 1..MaxDrops |-> NoHandler]
    /\ nDrops = 0
    /\ inflight = {}
    /\ lastRefresh = [h |-> 0, loadSince |-> FALSE]
    /\ db = [tables |-> {}, schemas |-> {}]
    /\ config = InitialConfig
    /\ editor = "unmounted"

\* the running application: the entry point has rendered the root
\* component and the connector is ready
Init ==
    /\ StoreCreated
    /\ bootPc = Rendered
    /\ monacoEnvironment = EnvironmentAfter(EntryImports)
    /\ connectorReady = TRUE
    /\ request = NoValue
    /\ response = NoValue

Next ==
    \/ \E w \in ButtonIds : SetCurrentWorkspaceBegin(w)
    \/ SetCurrentWorkspaceEnd
    \/ OnToggle
    \/ OnClose
    \/ EditorInitializes
    \/ \E files \in SeqsUpTo(FileNames, MaxFiles) : OnDrop(files)
    \/ \E c \in inflight, o \in Outcomes : LoadFileSettles(c, o)
    \/ \E c \in inflight, o \in Outcomes : RefreshSettles(c, o)

Spec == Init /\ [][Next]_vars

\* the page load: nothing of the entry point has run yet
InitBoot ==
    /\ StoreCreated
    /\ bootPc = 0
    /\ monacoEnvironment = EnvironmentUndefined
    /\ connectorReady = FALSE
    /\ request = NoValue
    /\ response = NoValue

NextBoot ==
    \/ ImportModule
    \/ Render
    \/ ConnectorInitialized
    \/ Next

\* the application from the page load on
SpecBoot == InitBoot /\ [][NextBoot]_vars

\* the identifiers a caller can hand to setCurrentWorkspace: the store is
\* exposed as window.roomStore, and the guide's buttons say "charts"
CallableIds == ButtonIds \cup {"charts"}

NextAnyId ==
    \/ \E w \in CallableIds \ ButtonIds : SetCurrentWorkspaceBegin(w)
    \/ Next

\* the application with callers that are not the switcher's buttons
SpecAnyId == Init /\ [][NextAnyId]_vars

\* the page load, the switches and the modal of the SQL editor: no file drop
\* reads or writes the editor or the Monaco environment
NextEditor ==
    \/ ImportModule
    \/ Render
    \/ ConnectorInitialized
    \/ \E w \in CallableIds : SetCurrentWorkspaceBegin(w)
    \/ SetCurrentWorkspaceEnd
    \/ OnToggle
    \/ OnClose
    \/ EditorInitializes

\* the editor from the page load on, with what the scheduling guarantees: a
\* synchronous function runs to its end, and the editor's initialization
\* gets its turn between the callbacks of the application
SpecEditor ==
    /\ InitBoot
    /\ [][NextEditor]_vars
    /\ WF_vars(SetCurrentWorkspaceEnd)
    /\ SF_vars(EditorInitializes)

(***************************************************************************)
(* The functions of the application that are called with an argument and   *)
(* answer: the echo tool (store.tsx 452-467), the worker factory           *)
(* (part_002 81-97) and the keydown listener of useKeyboardShortcut        *)
(* (part_003 171-203).  request is the call, response what came back.      *)
(***************************************************************************)
\* the characters of the texts, and String.prototype.toUpperCase on them
TextChars == {"h", "I"}

ToUpperCaseChar(c) == IF c = "h" THEN "H" ELSE c

ToUpperCase(text) == [k \in 1..Len(text) |-> ToUpperCaseChar(text[k])]

\* the arguments the model hands to the tool: the text, and the uppercase
\* flag of the guide's version of the tool, absent or given
EchoArgs ==
    {[text |-> t] : t \in SeqsUpTo(TextChars, MaxTextLen)}
        \cup {[text |-> t, uppercase |-> u] :
                 t \in SeqsUpTo(TextChars, MaxTextLen), u \in BOOLEAN}

\* parameters.parse(args) of z.object({text: z.string()}): keys that are
\* not in the schema are dropped
echoParameters(args) == [text |-> args.text]

\* an echo that refuses the empty text
echoExecute_nonEmpty(args) ==
    [kind |-> "result",
     llmResult |-> [success |-> args.text # <<>>,
                    details |-> <<"Echo: ">> \o args.text]]

\* execute({text}) of the echo tool
echoExecute(args) ==
    [kind |-> "result",
     llmResult |-> [success |-> TRUE,
                    details |-> <<"Echo: ">> \o args.text]]

\* the keys and modifier states of the keydown events of the model
EventKeys == {"1", "2", "3", "s", "x"}

KeyboardEvents ==
    [kind : {"keydown"}, key : EventKeys, ctrlKey : BOOLEAN,
     metaKey : BOOLEAN, shiftKey : BOOLEAN, altKey : BOOLEAN]

\* the options of a shortcut after the defaults of the destructuring
ShortcutOptions(ctrl, meta) ==
    [ctrl |-> ctrl, meta |-> meta, shift |-> FALSE, alt |-> FALSE,
     preventDefault |-> TRUE]

\* the shortcuts the usage example registers; handleSave is no workspace
Shortcuts ==
    {[keys |-> {"1"}, workspace |-> "data",
      options |-> ShortcutOptions(TRUE, TRUE)],
     [keys |-> {"2"}, workspace |-> "query",
      options |-> ShortcutOptions(TRUE, TRUE)],
     [keys |-> {"3"}, workspace |-> "chart",
      options |-> ShortcutOptions(TRUE, TRUE)],
     [keys |-> {"s"}, workspace |-> "none",
      options |-> ShortcutOptions(TRUE, TRUE)]}

\* the condition under which handleKeyDown calls the callback
ShortcutMatches(keysArray, options, event) ==
    LET keyMatch   == event.key \in keysArray
        ctrlMatch  == IF options.ctrl THEN event.ctrlKey ELSE TRUE
        metaMatch  == IF options.meta THEN event.metaKey ELSE TRUE
        shiftMatch == IF options.shift THEN event.shiftKey ELSE TRUE
        altMatch   == IF options.alt THEN event.altKey ELSE TRUE
    IN  keyMatch /\ ctrlMatch /\ metaMatch /\ shiftMatch /\ altMatch

\* the calls of the model
Requests ==
    {[kind |-> "echo", args |-> a] : a \in EchoArgs}
        \cup {[kind |-> "getWorker", label |-> l] : l \in WorkerLabels}
        \cup KeyboardEvents

\* the AI slice runs the echo tool on the parsed arguments
EchoToolCall ==
    /\ CallStackEmpty
    /\ request.kind = "echo"
    /\ response = NoValue
    /\ response' = echoExecute(echoParameters(request.args))
    /\ UNCHANGED storeVars
    /\ UNCHANGED dropVars
    /\ UNCHANGED <<sqlEditorOpen, db, editor, config, bootPc,
                   monacoEnvironment, connectorReady, request>>

\* Monaco asks self.MonacoEnvironment.getWorker for the worker of a label
GetWorkerCall ==
    /\ CallStackEmpty
    /\ request.kind = "getWorker"
    /\ response = NoValue
    /\ monacoEnvironment.defined
    /\ LET WorkerCtor == getWorker(monacoEnvironment.workers, request.label)
       IN  response' = IF WorkerCtor = "undefined"
                       THEN [kind |-> "undefined"]
                       ELSE [kind |-> "worker", ctor |-> WorkerCtor]
    /\ UNCHANGED storeVars
    /\ UNCHANGED dropVars
    /\ UNCHANGED <<sqlEditorOpen, db, editor, config, bootPc,
                   monacoEnvironment, connectorReady, request>>

\* the window gets a keydown event: the listener of every registered
\* shortcut runs; the one that matches prevents the default and calls its
\* callback, which for a workspace is the first step of setCurrentWorkspace
HandleKeyDown ==
    /\ CallStackEmpty
    /\ AppMounted
    /\ request.kind = "keydown"
    /\ response = NoValue
    /\ LET matching ==
               {sc \in Shortcuts :
                   ShortcutMatches(sc.keys, sc.options, request)}
       IN  IF matching = {}
           THEN /\ response' = [kind |-> "handled", fired |-> FALSE,
                                defaultPrevented |-> FALSE]
                /\ UNCHANGED storeVars
           ELSE LET sc == CHOOSE m \in matching : TRUE
                IN  /\ response' =
                          [kind |-> "handled", fired |-> TRUE,
                           defaultPrevented |-> sc.options.preventDefault]
                    /\ IF sc.workspace \in WorkspaceId
                       THEN /\ currentWorkspace' = sc.workspace
                            /\ switchPc' = "set"
                            /\ switchArg' = sc.workspace
                            /\ UNCHANGED <<layout, workspaces, panels>>
                       ELSE UNCHANGED storeVars
    /\ UNCHANGED dropVars
    /\ UNCHANGED <<sqlEditorOpen, db, editor, config, bootPc,
                   monacoEnvironment, connectorReady, request>>

\* the running application with one call in it
InitPure ==
    /\ StoreCreated
    /\ bootPc = Rendered
    /\ monacoEnvironment = EnvironmentAfter(EntryImports)
    /\ connectorReady = TRUE
    /\ request \in Requests
    /\ response = NoValue

NextPure ==
    \/ \E w \in ButtonIds : SetCurrentWorkspaceBegin(w)
    \/ SetCurrentWorkspaceEnd
    \/ EchoToolCall
    \/ GetWorkerCall
    \/ HandleKeyDown

\* the calls, made in every state the workspace switcher leads to
SpecPure == InitPure /\ [][NextPure]_vars

(***************************************************************************)
(* The drop handler of the first data panel (DataView.tsx 31-51), and the  *)
(* two panels run on the same files with the same outcomes.                *)
(***************************************************************************)
\* the acceptedFormats prop of the two dropzones, MIME type to extensions
DataViewFormats ==
    [mime \in {"text/csv", "text/tsv", "text/parquet", "text/json"} |->
        CASE mime = "text/csv" -> {<<".", "c", "s", "v">>}
          [] mime = "text/tsv" -> {<<".", "t", "s", "v">>}
          [] mime = "text/parquet" ->
                {<<".", "p", "a", "r", "q", "u", "e", "t">>}
          [] mime = "text/json" -> {<<".", "j", "s", "o", "n">>}]

DataViewAccordionFormats ==
    [mime \in {"text/csv", "text/tsv", "text/parquet", "text/json"} |->
        CASE mime = "text/csv" -> {<<".", "c", "s", "v">>}
          [] mime = "text/tsv" -> {<<".", "t", "s", "v">>}
          [] mime = "text/parquet" ->
                {<<".", "p", "a", "r", "q", "u", "e", "t">>}
          [] mime = "text/json" -> {<<".", "j", "s", "o", "n">>}]

\* the extensions a format map lets through
ExtensionsOf(formats) == UNION {formats[mime] : mime \in DOMAIN formats}

\* the toast of DataView's try block
DataViewSuccessToast(i, file, tableName) ==
    [ev |-> "toast", i |-> i, variant |-> "default", title |-> "Table created",
     description |-> <<"File ">> \o file \o <<" loaded as ">> \o tableName]

\* the toast of DataView's catch block
DataViewErrorToast(i, file, error) ==
    [ev |-> "toast", i |-> i, variant |-> "destructive", title |-> "Error",
     description |->
        <<"Error loading file ">> \o file \o <<": ">> \o Stringify(error)]

\* DataView's handler from the head of its loop at file i to its next await
DataViewOnDropRun(files, i) ==
    IF i <= Len(files)
    THEN [events |-> <<LoadFileCall(i, files[i],
                          convertToValidColumnOrTableName(files[i]))>>,
          calls |-> {[op |-> "loadFile", i |-> i]},
          pc |-> "awaitLoad", i |-> i]
    ELSE [events |-> <<RefreshCall>>,
          calls |-> {[op |-> "refreshTableSchemas", i |-> 0]},
          pc |-> "awaitRefresh", i |-> i]

\* a DataView that refreshes the schemas after every file
DataViewOnDropResume_refreshEach(files, i, outcome) ==
    LET toast == IF outcome.ok
                 THEN DataViewSuccessToast(i, files[i],
                          convertToValidColumnOrTableName(files[i]))
                 ELSE DataViewErrorToast(i, files[i], outcome.error)
        rest == DataViewOnDropRun(files, i + 1)
    IN  [rest EXCEPT !.events = <<toast, RefreshCall>> \o rest.events]

\* DataView's handler after the load of file i has settled
DataViewOnDropResume(files, i, outcome) ==
    LET toast == IF outcome.ok
                 THEN DataViewSuccessToast(i, files[i],
                          convertToValidColumnOrTableName(files[i]))
                 ELSE DataViewErrorToast(i, files[i], outcome.error)
        rest == DataViewOnDropRun(files, i + 1)
    IN  [rest EXCEPT !.events = <<toast>> \o rest.events]

\* the two panels
PanelNames == {"DataView", "DataViewAccordion"}

PanelRun(panel, files, i) ==
    IF panel = "DataView" THEN DataViewOnDropRun(files, i)
    ELSE OnDropRun(files, i)

PanelResume(panel, files, i, outcome) ==
    IF panel = "DataView" THEN DataViewOnDropResume(files, i, outcome)
    ELSE OnDropResume(files, i, outcome)

RECURSIVE PanelLoop(_, _, _, _)
\* what a panel's handler records from the settling of load i on, when load
\* k settles with loads[k]
PanelLoop(panel, files, loads, i) ==
    IF i > Len(files) THEN <<>>
    ELSE <<LoadFileSettled(i, loads[i])>>
            \o PanelResume(panel, files, i, loads[i]).events
            \o PanelLoop(panel, files, loads, i + 1)

\* the whole run of a panel's handler: its log and how its promise ends
PanelOnDropTrace(panel, files, loads, refresh) ==
    [kind |-> "trace",
     log |-> PanelRun(panel, files, 1).events
                \o PanelLoop(panel, files, loads, 1)
                \o <<RefreshSettled(refresh)>>,
     pc |-> IF refresh.ok THEN "resolved" ELSE "rejected"]

\* the sequences of length n over S
SeqsOfLen(S, n) == {q \in SeqsUpTo(S, n) : Len(q) = n}

\* a drop on one of the panels, with the outcome of every call it will make
DropRequests ==
    UNION {[kind : {"drop"}, panel : PanelNames, files : {files},
            loads : SeqsOfLen(Outcomes, Len(files)), refresh : Outcomes] :
           files \in SeqsUpTo(FileNames, MaxFiles)}

\* the dropzone of the panel calls onDrop and the handler runs to its end
PanelOnDrop ==
    /\ CallStackEmpty
    /\ request.kind = "drop"
    /\ response = NoValue
    /\ \A k \in 1..Len(request.files) :
          ExtensionOf(request.files[k]) \in
             ExtensionsOf(IF request.panel = "DataView"
                          THEN DataViewFormats ELSE DataViewAccordionFormats)
    /\ response' = PanelOnDropTrace(request.panel, request.files,
                                    request.loads, request.refresh)
    /\ UNCHANGED storeVars
    /\ UNCHANGED dropVars
    /\ UNCHANGED <<sqlEditorOpen, db, editor, config, bootPc,
                   monacoEnvironment, connectorReady, request>>

InitPanels ==
    /\ StoreCreated
    /\ bootPc = Rendered
    /\ monacoEnvironment = EnvironmentAfter(EntryImports)
    /\ connectorReady = TRUE
    /\ request \in DropRequests
    /\ response = NoValue

NextPanels == PanelOnDrop

\* one drop on one of the two panels
SpecPanels == InitPanels /\ [][NextPanels]_vars

(***************************************************************************)
(* Properties of the workspace switch.                                     *)
(***************************************************************************)
\* C1: when setCurrentWorkspace(w) returns, the active layout is the whole
\* tree WORKSPACES[w] and nothing else, and currentWorkspace is w, whatever
\* the store state before the call.
C1_SwitchInstallsStoredTree ==
    [][(switchPc = "set" /\ switchPc' = "idle") =>
          /\ layout' = workspaces'[switchArg]
          /\ layout' = WORKSPACES[switchArg]
          /\ currentWorkspace' = switchArg]_vars

\* a switch to the one-panel chart workspace has returned
C1_Witness ==
    /\ switchPc = "idle"
    /\ currentWorkspace = "chart"
    /\ layout = chartWorkspace

\* C3 (as claimed): every leaf of the active layout and of every tree of the
\* WORKSPACES table is a key of the registered panels.
C3_AllLeavesRegistered ==
    /\ LeavesOf(layout.nodes) \subseteq DOMAIN panels
    /\ \A w \in DOMAIN workspaces :
          LeavesOf(workspaces[w].nodes) \subseteq DOMAIN panels

\* C4: outside a running switch, that is in the initial state and after
\* every completed setCurrentWorkspace call, the active layout is
\* WORKSPACES[currentWorkspace].
C4_WorkspaceDeterminesLayout ==
    switchPc = "idle" => layout = workspaces[currentWorkspace]

\* a switch away from the initial workspace has completed
C4_Witness ==
    /\ switchPc = "idle"
    /\ currentWorkspace = "data"
    /\ currentWorkspace # InitialWorkspace
    /\ layout = workspaces["data"]

\* a split node is well formed: a percentage within [0,100], an axis, and
\* exactly the two children first and second
WellFormedBranch(n) ==
    /\ DOMAIN n = {"kind", "direction", "first", "second", "splitPercentage"}
    /\ n.splitPercentage >= 0
    /\ n.splitPercentage <= 100
    /\ n.direction \in {"row", "column"}
    /\ n.first.kind \in {"leaf", "branch"}
    /\ n.second.kind \in {"leaf", "branch"}

\* C5: every split node, at every depth, of the active layout, of the
\* default layouts (the nested one included) and of every tree of WORKSPACES
\* is well formed, in every reachable state.
C5_BranchesWellFormed ==
    \A t \in {layout} \cup DefaultLayouts
               \cup {workspaces[w] : w \in DOMAIN workspaces} :
        \A n \in BranchesOf(t.nodes) : WellFormedBranch(n)

\* in the middle of a switch the split tree of the workspace being left is
\* still the active layout
C5_Witness ==
    /\ switchPc = "set"
    /\ currentWorkspace = "chart"
    /\ BranchesOf(layout.nodes) # {}
    /\ Cardinality(BranchesOf(nestedLayout.nodes)) = 2

\* C7: setCurrentWorkspace runs to completion: for an identifier of the
\* table the lookup hits and the call can always finish, and between its
\* update of currentWorkspace and its setLayout call no other callback
\* runs (no drop handler continues or starts, no click is handled).
C7_SwitchRunsToCompletion ==
    /\ [](switchPc = "set" =>
             /\ switchArg \in DOMAIN workspaces
             /\ ENABLED SetCurrentWorkspaceEnd)
    /\ [][switchPc = "set" =>
             /\ switchPc' = "idle"
             /\ currentWorkspace' = currentWorkspace
             /\ UNCHANGED <<handlers, nDrops, inflight, sqlEditorOpen>>]_vars

\* a switch is between its two store updates while a drop handler waits
\* for a load and the modal is open
C7_Witness ==
    /\ switchPc = "set"
    /\ \E c \in inflight : c.op = "loadFile"
    /\ sqlEditorOpen

\* C8: the panel registry is the one the store was created with, through
\* workspace switches, file drops and toggles of the SQL editor modal, and
\* every placement is sidebar or main.
C8_PanelsImmutable ==
    /\ panels = InitialPanels
    /\ \A p \in DOMAIN panels : panels[p].placement \in {"sidebar", "main"}

\* a workspace switch, a completed drop and a modal toggle have all happened
C8_Witness ==
    /\ switchPc = "idle"
    /\ currentWorkspace = "data"
    /\ sqlEditorOpen
    /\ \E h \in 1..nDrops : handlers[h].pc = "resolved"

\* C9: the WORKSPACES table keeps its startup content through every
\* sequence of switches, so no stored tree (the previously active one
\* included) is changed in place; the switch only replaces the active value.
C9_StoredTreesUntouched ==
    /\ workspaces = WORKSPACES
    /\ layout \in {workspaces[w] : w \in DOMAIN workspaces}

\* the initial tree has been switched away from and is still in the table
C9_Witness ==
    /\ switchPc = "idle"
    /\ layout # InitialLayout
    /\ workspaces["query"] = InitialLayout

(***************************************************************************)
(* Properties of the drop handler.                                         *)
(***************************************************************************)
\* the positions of the events of kind ev about file i in a log
Positions(log, ev, i) ==
    {k \in 1..Len(log) : log[k].ev = ev /\ log[k].i = i}

\* the positions of the schema refresh calls in a log
RefreshPositions(log) ==
    {k \in 1..Len(log) : log[k].ev = "refreshTableSchemas"}

\* the loadFile calls of a log, in the order they were made
LoadCalls(log) == SelectSeq(log, LAMBDA e : e.ev = "loadFile")

\* sub occurs in s as a contiguous piece
Contains(s, sub) ==
    \E o \in 0..(Len(s) - Len(sub)) : SubSeq(s, o + 1, o + Len(sub)) = sub

\* the handler has finished: its promise is resolved or rejected
Finished(hd) == hd.pc \in {"resolved", "rejected"}

\* C2: an invocation calls loadFile at most once per file, for files
\* 1, 2, ... in drop order, each call after the previous load has settled;
\* it calls refreshTableSchemas at most once and only after every file's
\* load has settled; once the loop is over (and when the handler has
\* finished) every file has been loaded exactly once and the refresh has
\* been called exactly once, whatever the outcomes and also for no files.
C2_LoadsInOrderThenOneRefresh ==
    \A h \in 1..nDrops :
        LET hd == handlers[h]
            n == Len(hd.files)
            loads == LoadCalls(hd.log)
        IN  /\ Len(loads) <= n
            /\ \A j \in 1..Len(loads) :
                  /\ loads[j].i = j
                  /\ loads[j].file = hd.files[j]
            /\ \A j \in 1..n : Cardinality(Positions(hd.log, "loadFile", j)) <= 1
            /\ \A j \in 2..n : \A k \in Positions(hd.log, "loadFile", j) :
                  \E m \in Positions(hd.log, "loadFile.settled", j - 1) : m < k
            /\ Cardinality(RefreshPositions(hd.log)) <= 1
            /\ \A k \in RefreshPositions(hd.log) : \A j \in 1..n :
                  /\ \E m \in Positions(hd.log, "loadFile", j) : m < k
                  /\ \E m \in Positions(hd.log, "loadFile.settled", j) : m < k
            /\ (hd.pc = "awaitRefresh" \/ Finished(hd)) =>
                  /\ Len(loads) = n
                  /\ Cardinality(RefreshPositions(hd.log)) = 1

\* a drop of two files has finished after one load failed and one
\* succeeded, and an empty drop has finished too
C2_Witness ==
    /\ \E g \in 1..nDrops : Finished(handlers[g]) /\ handlers[g].files = <<>>
    /\ \E h \in 1..nDrops :
        /\ Finished(handlers[h])
        /\ Len(handlers[h].files) = 2
        /\ \E k, m \in 1..Len(handlers[h].log) :
              /\ handlers[h].log[k].ev = "loadFile.settled"
              /\ handlers[h].log[m].ev = "loadFile.settled"
              /\ handlers[h].log[k].outcome.ok
              /\ ~handlers[h].log[m].outcome.ok

\* C6: a failed load of file i is caught in the handler: the event after
\* the failure is one destructive toast whose description contains the file
\* name and the stringified error, the handler goes on with the loop,
\* loadFile is never called again for file i and file i gets no success
\* toast and no second toast.
C6_FailedLoadOneDestructiveToast ==
    \A h \in 1..nDrops :
        LET hd == handlers[h]
            log == hd.log
        IN  \A k \in 1..Len(log) :
              (log[k].ev = "loadFile.settled" /\ ~log[k].outcome.ok) =>
                 LET i == log[k].i
                 IN  /\ k + 2 <= Len(log)
                     /\ log[k + 1].ev = "toast"
                     /\ log[k + 1].i = i
                     /\ log[k + 1].variant = "destructive"
                     /\ Contains(log[k + 1].description, hd.files[i])
                     /\ Contains(log[k + 1].description,
                                 Stringify(log[k].outcome.error))
                     /\ log[k + 2].ev \in {"loadFile", "refreshTableSchemas"}
                     /\ log[k + 2].ev = "loadFile" => log[k + 2].i = i + 1
                     /\ Positions(log, "toast", i) = {k + 1}
                     /\ Cardinality(Positions(log, "loadFile", i)) = 1
                     /\ hd.pc # "rejected" \/ RefreshPositions(log) # {}

\* the first file of a drop failed with a TypeError and the second loaded
C6_Witness ==
    \E h \in 1..nDrops :
        LET log == handlers[h].log
        IN  \E k, m \in 1..Len(log) :
              /\ k < m
              /\ log[k].ev = "loadFile.settled"
              /\ ~log[k].outcome.ok
              /\ log[k].outcome.error.name = "TypeError"
              /\ log[m].ev = "toast"
              /\ log[m].variant = "default"

\* the loads of invocation h that have not settled
LoadsInFlight(h) == {c \in inflight : c.h = h /\ c.op = "loadFile"}

\* the schema refreshes of invocation h that have not settled
RefreshInFlight(h) == {c \in inflight : c.h = h /\ c.op = "refreshTableSchemas"}

\* C10: an invocation has at most one loadFile call in flight, and its
\* schema refresh is never in flight together with one of its loads.
C10_OneCallInFlightPerHandler ==
    \A h \in 1..MaxDrops :
        /\ Cardinality(LoadsInFlight(h)) <= 1
        /\ Cardinality(RefreshInFlight(h)) <= 1
        /\ LoadsInFlight(h) = {} \/ RefreshInFlight(h) = {}

\* two invocations are in progress at once, one loading the second of its
\* files and the other loading or refreshing
C10_Witness ==
    \E h, g \in 1..nDrops :
        /\ h # g
        /\ \E c \in LoadsInFlight(h) : c.i = 2
        /\ LoadsInFlight(g) \cup RefreshInFlight(g) # {}

\* the toasts of a log, in the order they were emitted
Toasts(log) == SelectSeq(log, LAMBDA e : e.ev = "toast")

\* C11: nothing cancels a drop in progress.  While a handler waits, the
\* call it waits for stays in flight; a step of a workspace switch and the
\* start of another drop leave every handler already started, and its
\* calls in flight, as they are; and a handler that has finished has
\* loaded each of its files once, in order, and refreshed once.
C11_NoCancellation ==
    /\ [](\A h \in 1..nDrops :
            LET hd == handlers[h]
            IN  /\ hd.pc = "awaitLoad" =>
                      [h |-> h, op |-> "loadFile", i |-> hd.i] \in inflight
                /\ hd.pc = "awaitRefresh" =>
                      [h |-> h, op |-> "refreshTableSchemas", i |-> 0] \in inflight
                /\ Finished(hd) =>
                      /\ [k \in 1..Len(LoadCalls(hd.log)) |-> LoadCalls(hd.log)[k].file]
                            = hd.files
                      /\ Cardinality(RefreshPositions(hd.log)) = 1)
    /\ [][(switchPc' # switchPc \/ nDrops' # nDrops) =>
             /\ \A h \in 1..nDrops : handlers'[h] = handlers[h]
             /\ inflight \subseteq inflight']_vars

\* a handler is loading the second of its files after the panel with the
\* dropzone has left the screen, next to a second drop
C11_Witness ==
    /\ switchPc = "idle"
    /\ ~("data-view" \in LeavesOf(layout.nodes))
    /\ nDrops = 2
    /\ \E h \in 1..nDrops : handlers[h].pc = "awaitLoad" /\ handlers[h].i = 2

\* C12 (as claimed): loadFile is only ever called on a connector that has
\* finished initializing.
C12_LoadOnlyOnReadyConnector ==
    [][\A c \in inflight' \ inflight : c.op = "loadFile" => connectorReady]_vars

\* C13 (as claimed): a setCurrentWorkspace call with an identifier that is
\* no key of WORKSPACES changes neither currentWorkspace nor the layout.
C13_InvalidIdIgnored ==
    [][((switchArg' # "none" /\ switchArg' \notin DOMAIN workspaces)
          \/ (switchArg # "none" /\ switchArg \notin DOMAIN workspaces)) =>
             /\ currentWorkspace' = currentWorkspace
             /\ layout' = layout]_vars

\* C14: the steps of setCurrentWorkspace change nothing but
\* currentWorkspace and the layout (the database, the config with title,
\* editor and AI settings, the modal and the drops stay), and a step that
\* changes a drop handler, the database or the modal changes neither
\* currentWorkspace nor the layout.
C14_SwitchAndRestAreSeparate ==
    [][/\ switchPc' # switchPc =>
             UNCHANGED <<db, config, sqlEditorOpen, editor, handlers, nDrops,
                         inflight, panels, workspaces>>
       /\ (handlers' # handlers \/ db' # db \/ sqlEditorOpen' # sqlEditorOpen) =>
             UNCHANGED <<currentWorkspace, layout, switchPc>>]_vars

\* tables are loaded and shown, the modal is open with its editor ready,
\* and the workspace has been switched
C14_Witness ==
    /\ switchPc = "idle"
    /\ currentWorkspace = "chart"
    /\ db.tables # {}
    /\ db.schemas = db.tables
    /\ editor = "ready"
    /\ config.title = "My Data App"

\* C15: every file whose load has settled has exactly one toast, the event
\* right after the settlement and so before the next load and before the
\* refresh: a default "Table created" toast naming the file and the table
\* name the load was called with (the one derived from the file name) if
\* the load succeeded, a destructive one if not.  Toasts come in drop order,
\* and when the loop is over there are as many toasts as files.
C15_OneToastPerFileInOrder ==
    \A h \in 1..nDrops :
        LET hd == handlers[h]
            log == hd.log
            toasts == Toasts(log)
        IN  /\ \A j \in 1..Len(toasts) : toasts[j].i = j
            /\ \A k \in 1..Len(log) :
                  log[k].ev = "loadFile.settled" =>
                     LET i == log[k].i
                         call == LoadCalls(log)[i]
                     IN  /\ Positions(log, "toast", i) = {k + 1}
                         /\ log[k + 1].variant =
                               (IF log[k].outcome.ok THEN "default" ELSE "destructive")
                         /\ log[k].outcome.ok =>
                               /\ log[k + 1].title = "Table created"
                               /\ call.tableName =
                                     convertToValidColumnOrTableName(hd.files[i])
                               /\ log[k + 1].description =
                                     <<"File ">> \o hd.files[i]
                                        \o <<" loaded as ">> \o call.tableName
                         /\ \A m \in Positions(log, "loadFile", i + 1) : k + 1 < m
                         /\ \A m \in RefreshPositions(log) : k + 1 < m
            /\ (hd.pc = "awaitRefresh" \/ Finished(hd)) =>
                  Len(toasts) = Len(hd.files)

\* the loop of a drop of two files is over with a destructive toast for the
\* first and a success toast for the second, whose table name differs from
\* the file name without its extension
C15_Witness ==
    \E h \in 1..nDrops :
        LET toasts == Toasts(handlers[h].log)
        IN  /\ handlers[h].pc = "awaitRefresh"
            /\ Len(toasts) = 2
            /\ toasts[1].variant = "destructive"
            /\ toasts[2].variant = "default"
            /\ handlers[h].files[2] = <<"1", "-", "b", ".", "t", "s", "v">>

(***************************************************************************)
(* Properties of the echo tool.                                            *)
(***************************************************************************)
\* C16: the echo tool never fails: for every text its result has
\* llmResult.success = true and llmResult.details = "Echo: " followed by the
\* text unchanged, whatever the state of the store is, and the step of the
\* tool changes nothing of the store.
C16_EchoNeverFails ==
    /\ [](request.kind = "echo" /\ response # NoValue =>
             /\ response.llmResult.success = TRUE
             /\ response.llmResult.details = <<"Echo: ">> \o request.args.text)
    /\ [][request.kind = "echo" /\ response' # response =>
             /\ UNCHANGED storeVars
             /\ UNCHANGED <<db, config, sqlEditorOpen, editor>>
             /\ UNCHANGED dropVars]_vars

\* the tool has answered a text of full length in a
\* store that has left its first workspace
C16_Witness ==
    /\ request.kind = "echo"
    /\ response # NoValue
    /\ Len(request.args.text) = MaxTextLen
    /\ currentWorkspace = "chart"
    /\ layout = chartWorkspace

\* C17: the result of the echo tool carries additionalData.echoedText, equal
\* to the text (upper-cased when uppercase is requested), together with
\* llmResult.success = true.
C17_EchoCarriesEchoedText ==
    request.kind = "echo" /\ response # NoValue =>
        /\ response.llmResult.success = TRUE
        /\ "additionalData" \in DOMAIN response
        /\ response.additionalData.echoedText =
              IF "uppercase" \in DOMAIN request.args /\ request.args.uppercase
              THEN ToUpperCase(request.args.text)
              ELSE request.args.text

(***************************************************************************)
(* Properties of the start of the application.                             *)
(***************************************************************************)
\* C18: the worker configuration runs once, with the first import of the
\* entry point and so before the root component renders; whenever a Monaco
\* editor is mounted, MonacoEnvironment.getWorker is defined and gives a
\* worker for every label, and an editor that shows its spinner leaves it.
C18_WorkersConfiguredBeforeEditors ==
    /\ [](editor # "unmounted" =>
             /\ monacoEnvironment.defined
             /\ \A label \in WorkerLabels :
                   getWorker(monacoEnvironment.workers, label) # "undefined")
    /\ [](bootPc >= 1 => monacoEnvironment.defined)
    /\ [][monacoEnvironment' # monacoEnvironment =>
             bootPc = 0 /\ ~monacoEnvironment.defined]_vars
    /\ (editor = "loading") ~> (editor # "loading")

\* the editor of the modal has left its spinner in an application that
\* was started from the page load, before the connector was ready
C18_Witness ==
    /\ editor = "ready"
    /\ sqlEditorOpen
    /\ ~connectorReady
    /\ monacoEnvironment = EnvironmentConfigured

\* C19: the worker factory is total: for every label Monaco asks for it
\* returns a worker; json, css and html get their own worker, typescript and
\* javascript the TypeScript worker, every other label the editor worker.
C19_GetWorkerTotal ==
    request.kind = "getWorker" /\ response # NoValue =>
        /\ response.kind = "worker"
        /\ response.ctor =
              CASE request.label = "json" -> "jsonWorker"
                [] request.label = "css" -> "cssWorker"
                [] request.label = "html" -> "htmlWorker"
                [] request.label \in {"typescript", "javascript"} -> "tsWorker"
                [] OTHER -> "editorWorker"

\* the factory has answered a label that has no worker of its own
C19_Witness ==
    /\ request.kind = "getWorker"
    /\ request.label = "scss"
    /\ response # NoValue

(***************************************************************************)
(* Properties of the keyboard shortcuts.                                   *)
(***************************************************************************)
\* C20: with options {ctrl: true, meta: true} the shortcuts "1", "2", "3"
\* fire when the key comes with Cmd or with Ctrl: one of the two modifiers
\* is enough, and the workspace of the key becomes the current one.
C20_EitherModifierFires ==
    /\ request.kind = "keydown"
    /\ response # NoValue
    /\ request.key \in {"1", "2", "3"}
    /\ request.ctrlKey \/ request.metaKey
    => response.fired

(***************************************************************************)
(* Properties of the two data panels.                                      *)
(***************************************************************************)
\* the other one of the two panels
OtherPanel(panel) == CHOOSE q \in PanelNames : q # panel

\* C21: for the same files and the same outcomes the handlers of DataView
\* and of DataViewAccordion record the same loadFile calls, toasts and
\* refreshTableSchemas calls in the same order and end the same way, and
\* the two dropzones accept the same format map (csv, tsv, parquet, json);
\* the dropzone of the panel in the layout accepts exactly its extensions.
C21_PanelsInterchangeable ==
    /\ DataViewFormats = DataViewAccordionFormats
    /\ ExtensionsOf(DataViewAccordionFormats) = acceptedFormats
    /\ ExtensionsOf(DataViewFormats) =
          {<<".", "c", "s", "v">>, <<".", "t", "s", "v">>,
           <<".", "p", "a", "r", "q", "u", "e", "t">>,
           <<".", "j", "s", "o", "n">>}
    /\ request.kind = "drop" /\ response # NoValue =>
          response = PanelOnDropTrace(OtherPanel(request.panel), request.files,
                                      request.loads, request.refresh)

\* DataView has handled a drop of the most files, one load of which failed
C21_Witness ==
    /\ request.kind = "drop"
    /\ request.panel = "DataView"
    /\ response # NoValue
    /\ Len(request.files) = MaxFiles
    /\ \E k \in 1..Len(request.loads) : ~request.loads[k].ok
    /\ \E k \in 1..Len(request.loads) : request.loads[k].ok

(***************************************************************************)
(* Properties of the workspace switch as a whole.                          *)
(***************************************************************************)
\* C22: the switch is atomic for the subscribers of the store: at every
\* notification, during or after a call of setCurrentWorkspace, the active
\* layout is the tree of the table for currentWorkspace; nobody sees the new
\* currentWorkspace with the tree of the previous workspace.  A state of
\* the model is what the subscribers are notified of: the set of line 474
\* notifies them before line 478 runs.
C22_ObserversSeeConsistentPair ==
    layout = workspaces[currentWorkspace]

C24_OneButtonHighlighted ==
    /\ [](/\ Cardinality({ws \in SwitcherButtons : Highlighted(ws)}) = 1
          /\ \A ws \in SwitcherButtons :
                Highlighted(ws) <=> ws.id = currentWorkspace)
    /\ [][switchPc = "idle" /\ switchPc' = "set" =>
             {ws.id : ws \in {b \in SwitcherButtons : Highlighted(b)'}}
                = {switchArg'}]_vars
    /\ [][switchPc = "set" /\ switchPc' = "idle" =>
             {ws.id : ws \in {b \in SwitcherButtons : Highlighted(b)'}}
                = {switchArg}]_vars

\* the click on the Charts button has been handled and its button, whose
\* label is not its id, is the highlighted one
C24_Witness ==
    /\ switchPc = "idle"
    /\ \E ws \in SwitcherButtons :
          /\ Highlighted(ws)
          /\ ws.label = "Charts"
          /\ ws.id # InitialWorkspace

\* C25: every identifier the switcher can pass to setCurrentWorkspace is a
\* key of WORKSPACES and every key has a button: the ids of the buttons are
\* data, query, chart; so the lookup of a call never misses and
\* currentWorkspace is a key of the table in every state.
C25_ButtonsAreTheKeys ==
    /\ ButtonIds = DOMAIN WORKSPACES
    /\ ButtonIds = {"data", "query", "chart"}
    /\ {ws.id : ws \in SwitcherButtons} = ButtonIds
    /\ [](currentWorkspace \in DOMAIN workspaces)
    /\ [][switchPc' = "set" => switchArg' \in DOMAIN workspaces']_vars
    /\ [][switchPc = "set" /\ switchPc' = "idle" => layout' # Undefined]_vars

\* a call made by the button of the last key of the table is at its lookup
C25_Witness ==
    /\ switchPc = "set"
    /\ switchArg = "chart"
    /\ switchArg \in ButtonIds
    /\ layout # workspaces[switchArg]

(***************************************************************************)
(* Properties of interleaved drops and of the schema refresh.              *)
(***************************************************************************)
\* every drop so far has finished, and there was one
AllDropsFinished ==
    /\ nDrops >= 1
    /\ \A h \in 1..nDrops : Finished(handlers[h])

\* the tables of the loads the handlers were told have succeeded
LoadedTables ==
    UNION {{convertToValidColumnOrTableName(
                handlers[h].files[handlers[h].log[k].i]) :
            k \in {j \in 1..Len(handlers[h].log) :
                     /\ handlers[h].log[j].ev = "loadFile.settled"
                     /\ handlers[h].log[j].outcome.ok}} :
           h \in 1..nDrops}

C27_RefreshFailureUncaught ==
    /\ [][\A h \in 1..nDrops :
            handlers[h].pc = "awaitRefresh" /\ handlers'[h] # handlers[h] =>
               LET log == handlers'[h].log
                   settled == log[Len(log)]
               IN  /\ settled.ev = "refreshTableSchemas.settled"
                   /\ log = handlers[h].log \o <<settled>>
                   /\ Toasts(log) = Toasts(handlers[h].log)
                   /\ handlers'[h].pc =
                         IF settled.outcome.ok THEN "resolved" ELSE "rejected"]_vars
    /\ [](\A h \in 1..nDrops :
            handlers[h].pc = "rejected" =>
               /\ Len(Toasts(handlers[h].log)) = Len(handlers[h].files)
               /\ \A k \in 1..Len(handlers[h].files) :
                     Toasts(handlers[h].log)[k].i = k
               /\ handlers[h].log[Len(handlers[h].log)].ev
                     = "refreshTableSchemas.settled"
               /\ ~handlers[h].log[Len(handlers[h].log)].outcome.ok)
    /\ [][\A h \in 1..nDrops :
            handlers[h].pc = "rejected" => handlers'[h] = handlers[h]]_vars

\* the promise of a drop of two files, one loaded and one not, has been
\* rejected by the refresh
C27_Witness ==
    \E h \in 1..nDrops :
        /\ handlers[h].pc = "rejected"
        /\ Len(handlers[h].files) = 2
        /\ Toasts(handlers[h].log)[1].variant = "default"
        /\ Toasts(handlers[h].log)[2].variant = "destructive"

====
